---- MODULE Spec2Model ----
(***************************************************************************)
(* Model of dandelion/tools/_network.py: generate_network (distance        *)
(* matrices, per-cluster minimum spanning trees, forced clone links, the   *)
(* merged edge list), generate_layout (full and trimmed graph),            *)
(* clone_degree, the layout routines _fruchterman_reingold_layout,         *)
(* _fruchterman_reingold and _sparse_fruchterman_reingold, and repeated    *)
(* generate_network calls on the same records.                             *)
(*                                                                         *)
(* Cells are numbered by their position in out.metadata.index.  Real       *)
(* numbers are exact rationals <<numerator, denominator>> in lowest terms; *)
(* floating-point rounding is not modelled.  The positions and forces of   *)
(* the layout routines are fixed-point integers.  None is <<>>, a present  *)
(* value x is <<x>>.                                                       *)
(***************************************************************************)
EXTENDS Integers, Sequences, FiniteSets, TLC

VARIABLES pc, clone_id, seqs, distance_mode, weights, constructbygroup,
          min_size, dmat, total_dist, mst_tree, edge_list_final,
          vertice_list, G, G_, raised, self, clone_degree,
          fr, np_random, hash_order, previous

vars == <<pc, clone_id, seqs, distance_mode, weights, constructbygroup,
          min_size, dmat, total_dist, mst_tree, edge_list_final,
          vertice_list, G, G_, raised, self, clone_degree,
          fr, np_random, hash_order, previous>>

\* the state outside one generate_network / generate_layout / clone_degree
\* call: the locals of a running layout routine (fr), numpy's global
\* RandomState (np_random), the interpreter's set iteration order
\* (hash_order) and the outputs of an earlier call (previous)
engine_vars == <<fr, np_random, hash_order, previous>>

\* ------------------------------------------------------------------ bounds

\* number of cells (rows of metadata) of a generate_network call
NumCells == 3

\* number of vertices handed to a direct generate_layout call
NumVertices == 5

\* largest min_size of a direct generate_layout call
MaxMinSize == 4

\* -------------------------------------------------------------- primitives

None == <<>>

Some(x) == <<x>>

Min2(a, b) == IF a < b THEN a ELSE b

RECURSIVE GCD(_, _)
GCD(a, b) == IF b = 0 THEN a ELSE GCD(b, a % b)

\* a float, as an exact fraction in lowest terms
Rat(n, d) == LET g == GCD(n, d) IN <<n \div g, d \div g>>

RatAdd(x, y) == Rat(x[1] * y[2] + y[1] * x[2], x[2] * y[2])

RatScale(w, k) == Rat(w[1] * k, w[2])

RatLess(x, y) == x[1] * y[2] < y[1] * x[2]

RatZero == <<0, 1>>

\* ndarray.astype(int): truncation toward zero (values are non-negative)
AsTypeInt(x) == x[1] \div x[2]

\* polyleven.levenshtein: unit-cost insert / delete / substitute
RECURSIVE levenshtein(_, _)
levenshtein(a, b) ==
    IF Len(a) = 0 THEN Len(b)
    ELSE IF Len(b) = 0 THEN Len(a)
    ELSE LET ta == Tail(a)
             tb == Tail(b)
             sub == levenshtein(ta, tb) + (IF Head(a) = Head(b) THEN 0 ELSE 1)
             del == levenshtein(ta, b) + 1
             ins == levenshtein(a, tb) + 1
         IN  Min2(sub, Min2(del, ins))

\* ------------------------------------------------------------------ inputs

\* out.metadata.index
Cells == 1 .. NumCells

\* the clone_id_group column: the part of the clone id before the separator
clone_group(c) == IF c \in {"A_1", "A_2"} THEN "A" ELSE "B"

\* dat_seq.columns: one heavy chain and one light chain per cell
Layers == <<"heavy", "light_0">>

\* gapped (heavy, light_0) sequences
SeqAAA == <<<<"A", "A", "A">>, <<"C", "C">>>>

SeqAAB == <<<<"A", "A", "B">>, <<"C", "C">>>>

SeqABB == <<<<"A", "B", "B">>, <<"C", "D">>>>

\* the (clone_id, sequences) a cell may carry
CellRecords == { <<"A_1", SeqAAA>>, <<"A_1", SeqAAB>>, <<"A_1", SeqABB>>,
                 <<"A_2", SeqAAA>>, <<"A_2", SeqAAB>>,
                 <<"B_1", SeqABB>> }

\* values of the weights parameter: one weight per layer, or one too many
TwoWeights == Some(<< <<3, 10>>, <<7, 10>> >>)

ThreeWeights == Some(<< <<1, 2>>, <<1, 4>>, <<1, 4>> >>)

\* the (distance_mode, weights) a call may pass
DistanceConfigs == { <<"simple", None>>, <<"simple", ThreeWeights>>,
                     <<"weighted", None>>, <<"weighted", TwoWeights>>,
                     <<"weighted", ThreeWeights>> }

\* ------------------------------------------------------- distance matrices

\* squareform(pdist(tdarray, levenshtein)): pdist fills i < j, squareform mirrors
layer_dmat(s) ==
    [p \in Cells \X Cells |->
        IF p[1] = p[2] THEN 0
        ELSE IF p[1] < p[2] THEN levenshtein(s[p[1]], s[p[2]])
        ELSE levenshtein(s[p[2]], s[p[1]])]

\* dist_mat_list: the matrices of dmat, in column order
dist_mat_list(d) == [k \in 1 .. Len(Layers) |-> d[Layers[k]]]

\* sum(weighted_matrix) / np.sum(dist_mat_list, axis=0), cell by cell
RECURSIVE sum_matrices(_, _, _)
sum_matrices(ws, ds, k) ==
    IF k = 0 THEN [p \in Cells \X Cells |-> RatZero]
    ELSE LET rest == sum_matrices(ws, ds, k - 1)
         IN  [p \in Cells \X Cells |-> RatAdd(rest[p], RatScale(ws[k], ds[k][p]))]

\* combine_distance without the 1/n_ of line 117: unweighted layers are summed
combine_distance_unscaled(mode, w, ds) ==
    LET n_ == Len(ds)
    IN  IF mode = "simple" \/ w = None
        THEN [raised |-> "None",
              total |-> Some(sum_matrices([k \in 1 .. n_ |-> <<1, 1>>], ds, n_))]
        ELSE IF Len(w[1]) = n_
        THEN [raised |-> "None", total |-> Some(sum_matrices(w[1], ds, n_))]
        ELSE [raised |-> "IndexError", total |-> None]

\* combine_distance without the length check of line 120: the first n_
\* weights are used
combine_distance_unchecked(mode, w, ds) ==
    LET n_ == Len(ds)
    IN  IF mode = "simple"
        THEN [raised |-> "None",
              total |-> Some(sum_matrices([k \in 1 .. n_ |-> <<1, 1>>], ds, n_))]
        ELSE IF w = None
        THEN [raised |-> "None",
              total |-> Some(sum_matrices([k \in 1 .. n_ |-> Rat(1, n_)], ds, n_))]
        ELSE [raised |-> "None", total |-> Some(sum_matrices(w[1], ds, n_))]

\* lines 110-125: the combined matrix, or the IndexError
combine_distance(mode, w, ds) ==
    LET n_ == Len(ds)
    IN  IF mode = "simple"
        THEN [raised |-> "None",
              total |-> Some(sum_matrices([k \in 1 .. n_ |-> <<1, 1>>], ds, n_))]
        ELSE IF w = None
        THEN [raised |-> "None",
              total |-> Some(sum_matrices([k \in 1 .. n_ |-> Rat(1, n_)], ds, n_))]
        ELSE IF Len(w[1]) = n_
        THEN [raised |-> "None", total |-> Some(sum_matrices(w[1], ds, n_))]
        ELSE [raised |-> "IndexError", total |-> None]

\* ------------------------------------------------------ clusters and trees

\* lines 136-139: the key a cell is clustered by for the spanning trees
cluster_key(cid, bygroup, i) ==
    IF bygroup THEN clone_group(cid[i]) ELSE cid[i]

\* tmp_clusterdist2[x]: the cells of cluster x (listed in metadata order)
cluster_members(cid, bygroup, x) ==
    {i \in Cells : cluster_key(cid, bygroup, i) = x}

\* lines 144-149: the sub-matrix of every cluster with more than one cell
cluster_dist(total, cid, bygroup) ==
    LET keys == {cluster_key(cid, bygroup, i) : i \in Cells}
        kept == {x \in keys : Cardinality(cluster_members(cid, bygroup, x)) > 1}
    IN  [x \in kept |->
            LET m == cluster_members(cid, bygroup, x)
            IN  [p \in m \X m |-> total[p]]]

\* the cells a square matrix is indexed by
matrix_index(m) == {p[1] : p \in DOMAIN m}

\* np.triu: entries below the diagonal become 0
triu(m) == [p \in DOMAIN m |-> IF p[1] <= p[2] THEN m[p] ELSE RatZero]

\* edge_before with the sort by weight left out: entries in row-major order
edge_before_unsorted(m, e, f) ==
    \/ e[1] < f[1]
    \/ e[1] = f[1] /\ e[2] <= f[2]

\* order in which Kruskal visits the stored entries: by weight, ties in
\* row-major order of the matrix
edge_before(m, e, f) ==
    \/ RatLess(m[e], m[f])
    \/ /\ m[e] = m[f]
       /\ \/ e[1] < f[1]
          \/ e[1] = f[1] /\ e[2] <= f[2]

\* Kruskal's loop of scipy.sparse.csgraph.minimum_spanning_tree: take the
\* next entry, keep it when its ends lie in different components
RECURSIVE kruskal(_, _, _, _)
kruskal(m, edges, comp, tree) ==
    IF edges = {} THEN tree
    ELSE LET e == CHOOSE e \in edges : \A f \in edges : edge_before(m, e, f)
         IN  IF comp[e[1]] # comp[e[2]]
             THEN kruskal(m, edges \ {e},
                          [v \in DOMAIN comp |->
                              IF comp[v] = comp[e[2]] THEN comp[e[1]] ELSE comp[v]],
                          tree \cup {e})
             ELSE kruskal(m, edges \ {e}, comp, tree)

\* minimum_spanning_tree(m).toarray(): a 0 entry of m is no edge of the graph
minimum_spanning_tree(m) ==
    LET stored == {p \in DOMAIN m : m[p] # RatZero}
        tree == kruskal(m, stored, [v \in matrix_index(m) |-> v], {})
    IN  [p \in DOMAIN m |-> IF p \in tree THEN m[p] ELSE RatZero]

\* mst(mat): per cluster, the spanning tree of the upper triangle, cast to int
mst(mat) ==
    [c \in DOMAIN mat |->
        LET t == minimum_spanning_tree(triu(mat[c]))
        IN  [p \in DOMAIN t |-> AsTypeInt(t[p])]]

\* nx.from_pandas_adjacency(..., MultiDiGraph) then to_pandas_edgelist: one
\* (source, target) row per nonzero entry
adjacency_edges(adj) == {p \in DOMAIN adj : adj[p] # 0}

\* lines 154-158 and 184: edge_listx, the rows of every tree keyed by
\* (source, target), each with the tree's integer weight
edge_listx(tree) ==
    LET keys == UNION {adjacency_edges(tree[c]) : c \in DOMAIN tree}
    IN  [p \in keys |->
            LET c == CHOOSE c \in DOMAIN tree : p \in DOMAIN tree[c]
            IN  <<tree[c][p], 1>>]

\* tmp_clone_tree3 without the forced links: an all-zero matrix per clone
tmp_clone_tree3_unlinked(cid) ==
    [x \in {cid[i] : i \in Cells} |->
        LET m == {i \in Cells : cid[i] = x}
        IN  [p \in m \X m |-> 0]]

\* tmp_clone_tree3 without np.tril: 1 on both sides of the diagonal
tmp_clone_tree3_full(cid) ==
    [x \in {cid[i] : i \in Cells} |->
        LET m == {i \in Cells : cid[i] = x}
        IN  [p \in m \X m |-> IF p[1] # p[2] THEN 1 ELSE 0]]

\* lines 160-173: tmp_clone_tree3[x], np.tril(all-NaN) + 1 with NaN filled by
\* 0: 1 strictly above the diagonal, 0 on and below it
tmp_clone_tree3(cid) ==
    [x \in {cid[i] : i \in Cells} |->
        LET m == {i \in Cells : cid[i] = x}
        IN  [p \in m \X m |-> IF p[1] < p[2] THEN 1 ELSE 0]]

\* lines 176-180 and 187: tmp_edge_listx, the rows of every clone keyed by
\* (source, target), each with the placeholder weight
tmp_edge_listx(cid) ==
    LET t == tmp_clone_tree3(cid)
        keys == UNION {adjacency_edges(t[x]) : x \in DOMAIN t}
    IN  [p \in keys |->
            LET x == CHOOSE x \in DOMAIN t : p \in DOMAIN t[x]
            IN  <<t[x][p], 1>>]

\* combine_first without the rows of b: the tree rows alone
combine_first_left(a, b) == a

\* line 190: a.combine_first(b): the union of both indexes, a's row where
\* a has one
combine_first(a, b) ==
    [p \in (DOMAIN a) \cup (DOMAIN b) |-> IF p \in DOMAIN a THEN a[p] ELSE b[p]]

\* fill_weights without the loop of lines 192-193: the merged weights stay
fill_weights_kept(frame, total) == frame

\* lines 192-193: every row's weight is read from tmp_totaldist
fill_weights(frame, total) == [p \in DOMAIN frame |-> total[p]]

\* the rows of a frame in the order of its sorted index
RECURSIVE frame_rows(_)
frame_rows(frame) ==
    IF DOMAIN frame = {} THEN <<>>
    ELSE LET keys == DOMAIN frame
             k == CHOOSE k \in keys :
                    \A o \in keys : k[1] < o[1] \/ (k[1] = o[1] /\ k[2] <= o[2])
         IN  <<[source |-> k[1], target |-> k[2], weight |-> frame[k]]>>
             \o frame_rows([o \in keys \ {k} |-> frame[o]])

\* lines 183-197: the merged edge list.  pd.concat of no frames raises, and
\* the except branch substitutes the empty three-column frame; frames without
\* rows carry no weight column
merge_edges(tree, cid, total) ==
    IF DOMAIN tree = {}
    THEN [columns |-> {"source", "target", "weight"}, rows |-> <<>>]
    ELSE LET merged == combine_first(edge_listx(tree), tmp_edge_listx(cid))
         IN  [columns |-> IF DOMAIN merged = {} THEN {"source", "target"}
                          ELSE {"source", "target", "weight"},
              rows |-> frame_rows(fill_weights(merged, total))]

\* ------------------------------------------------------------------ graphs

\* an nx.Graph edge between x and y, as the set of its ends
edge_of(row) == {row.source, row.target}

\* build_graph without add_nodes_from: only the ends of the rows are nodes
build_graph_edges_only(vertices, rows) ==
    LET ends == UNION {edge_of(rows[k]) : k \in 1 .. Len(rows)}
        es == {edge_of(rows[k]) : k \in 1 .. Len(rows)}
    IN  [nodes |-> ends,
         adj |-> [e \in es |->
                    LET last == CHOOSE k \in 1 .. Len(rows) :
                                  /\ edge_of(rows[k]) = e
                                  /\ \A j \in 1 .. Len(rows) :
                                        edge_of(rows[j]) = e => j <= k
                    IN  rows[last].weight]]

\* lines 266-268: the nodes of vertices, then one undirected edge per row
\* (a later row of the same pair overwrites the weight)
build_graph(vertices, rows) ==
    LET ends == UNION {edge_of(rows[k]) : k \in 1 .. Len(rows)}
        es == {edge_of(rows[k]) : k \in 1 .. Len(rows)}
    IN  [nodes |-> {vertices[k] : k \in 1 .. Len(vertices)} \cup ends,
         adj |-> [e \in es |->
                    LET last == CHOOSE k \in 1 .. Len(rows) :
                                  /\ edge_of(rows[k]) = e
                                  /\ \A j \in 1 .. Len(rows) :
                                        edge_of(rows[j]) = e => j <= k
                    IN  rows[last].weight]]

\* G.degree(): the number of edge ends at a node (a self-loop has two)
degree(g, v) ==
    Cardinality({e \in DOMAIN g.adj : v \in e})
    + (IF {v} \in DOMAIN g.adj THEN 1 ELSE 0)

\* G_.remove_nodes_from(r): the nodes go, and every edge at one of them
remove_nodes_from(g, r) ==
    [nodes |-> g.nodes \ r,
     adj |-> [e \in {e \in DOMAIN g.adj : e \cap r = {}} |-> g.adj[e]]]

\* trimmed_graph with the comparison of line 274 turned round: nodes of
\* degree below min_size are removed
trimmed_graph_low_degree(g, ms) ==
    IF ms = 2
    THEN remove_nodes_from(g, {v \in g.nodes : degree(g, v) = 0})
    ELSE IF ms > 2
    THEN remove_nodes_from(g, {v \in g.nodes : degree(g, v) < ms})
    ELSE g

\* lines 270-275: the trimmed copy
trimmed_graph(g, ms) ==
    IF ms = 2
    THEN remove_nodes_from(g, {v \in g.nodes : degree(g, v) = 0})
    ELSE IF ms > 2
    THEN remove_nodes_from(g, {v \in g.nodes : degree(g, v) > ms})
    ELSE g

\* lines 278-279: a position for every node of the graph
fruchterman_reingold_layout(g) == g.nodes

\* generate_layout: edges['weight'] of a frame without that column raises
\* KeyError (line 268); unpacking zip(*...) of a trimmed graph without edges
\* raises ValueError (line 276)
generate_layout(vertices, edges, ms) ==
    IF "weight" \notin edges.columns
    THEN [raised |-> "KeyError", G |-> None, G_ |-> None, pos |-> None, pos_ |-> None]
    ELSE LET g == build_graph(vertices, edges.rows)
             t == trimmed_graph(g, ms)
         IN  IF DOMAIN t.adj = {}
             THEN [raised |-> "ValueError", G |-> Some(g), G_ |-> Some(t),
                   pos |-> None, pos_ |-> None]
             ELSE [raised |-> "None", G |-> Some(g), G_ |-> Some(t),
                   pos |-> Some(fruchterman_reingold_layout(g)),
                   pos_ |-> Some(fruchterman_reingold_layout(t))]

\* ------------------------------------------------------------ clone_degree

\* line 253: np.sum over the stored layer matrices, cell by cell
RECURSIVE layer_sum(_, _, _)
layer_sum(d, p, k) ==
    IF k = 0 THEN 0 ELSE layer_sum(d, p, k - 1) + d[Layers[k]][p]

NonZero(x) == x # 0

\* line 254: csr_matrix(dist).data, the nonzero entries in row-major order
csr_data(dist) ==
    LET n == NumCells
        flat == [k \in 1 .. n * n |-> dist[<<((k - 1) \div n) + 1, ((k - 1) % n) + 1>>]]
    IN  SelectSeq(flat, NonZero)

\* line 256: zip(index, index, A.data) stops at the shorter of its arguments
degree_rows(data) ==
    [k \in 1 .. Min2(NumCells, Len(data)) |->
        [source |-> k, target |-> k, weight |-> data[k]]]

RECURSIVE sum_weights(_, _)
sum_weights(adj, es) ==
    IF es = {} THEN 0
    ELSE LET e == CHOOSE e \in es : TRUE
         IN  adj[e] + sum_weights(adj, es \ {e})

\* G.degree(weight='weight'): the weights of the edges at a node, a
\* self-loop counted twice
weighted_degree(g, v) ==
    sum_weights(g.adj, {e \in DOMAIN g.adj : v \in e})
    + (IF {v} \in DOMAIN g.adj THEN g.adj[{v}] ELSE 0)

\* clone_degree: iterating a missing self.distance raises TypeError;
\* set_index(0) of the frame of an empty graph raises KeyError; cells that are
\* no node of the graph get NaN (None)
clone_degree_column(distance) ==
    IF distance = None
    THEN [raised |-> "TypeError", column |-> None]
    ELSE LET dist == [p \in Cells \X Cells |-> layer_sum(distance[1], p, Len(Layers))]
             g == build_graph(<<>>, degree_rows(csr_data(dist)))
         IN  IF g.nodes = {}
             THEN [raised |-> "KeyError", column |-> None]
             ELSE [raised |-> "None",
                   column |-> Some([i \in Cells |->
                                      IF i \in g.nodes
                                      THEN Some(weighted_degree(g, i))
                                      ELSE None])]

\* ----------------------------------------------------------------- actions

LayerNames == {Layers[k] : k \in 1 .. Len(Layers)}

\* a Dandelion object on which generate_network has not run
FreshSelf == [distance |-> None, edges |-> None, layout |-> None, graph |-> None]

\* the inputs of one generate_network call on a Dandelion object
Init ==
    /\ pc = "start"
    /\ \E cell \in [Cells -> CellRecords] :
          /\ clone_id = [i \in Cells |-> cell[i][1]]
          /\ seqs = [l \in LayerNames |->
                       [i \in Cells |->
                           IF l = "heavy" THEN cell[i][2][1] ELSE cell[i][2][2]]]
    /\ \E cfg \in DistanceConfigs :
          /\ distance_mode = cfg[1]
          /\ weights = cfg[2]
    /\ constructbygroup \in BOOLEAN
    /\ min_size \in {2, 3}
    /\ dmat = None
    /\ total_dist = None
    /\ mst_tree = None
    /\ edge_list_final = None
    /\ vertice_list = None
    /\ G = None
    /\ G_ = None
    /\ raised = "None"
    /\ self = FreshSelf
    /\ clone_degree = None
    /\ fr = None
    /\ np_random = 0
    /\ hash_order = None
    /\ previous = None

\* generate_network, lines 100-108: one distance matrix per layer
CalculateDistances ==
    /\ pc = "start"
    /\ dmat' = Some([l \in LayerNames |-> layer_dmat(seqs[l])])
    /\ pc' = "distances"
    /\ UNCHANGED <<clone_id, seqs, distance_mode, weights, constructbygroup,
                   min_size, total_dist, mst_tree, edge_list_final,
                   vertice_list, G, G_, raised, self, clone_degree>>
    /\ UNCHANGED engine_vars

\* generate_network, lines 110-125: the combined matrix, or IndexError
CombineDistances ==
    /\ pc = "distances"
    /\ LET comb == combine_distance(distance_mode, weights, dist_mat_list(dmat[1]))
       IN  /\ total_dist' = comb.total
           /\ raised' = comb.raised
           /\ pc' = IF comb.raised = "None" THEN "combined" ELSE "raised"
    /\ UNCHANGED <<clone_id, seqs, distance_mode, weights, constructbygroup,
                   min_size, dmat, mst_tree, edge_list_final,
                   vertice_list, G, G_, self, clone_degree>>
    /\ UNCHANGED engine_vars

\* generate_network, lines 133-151: the spanning tree of every cluster
BuildTrees ==
    /\ pc = "combined"
    /\ mst_tree' = Some(mst(cluster_dist(total_dist[1], clone_id, constructbygroup)))
    /\ pc' = "trees"
    /\ UNCHANGED <<clone_id, seqs, distance_mode, weights, constructbygroup,
                   min_size, dmat, total_dist, edge_list_final,
                   vertice_list, G, G_, raised, self, clone_degree>>
    /\ UNCHANGED engine_vars

\* generate_network, lines 154-200: the merged edge list and the vertex list
MergeEdges ==
    /\ pc = "trees"
    /\ edge_list_final' = Some(merge_edges(mst_tree[1], clone_id, total_dist[1]))
    /\ vertice_list' = Some([k \in 1 .. NumCells |-> k])
    /\ pc' = "merged"
    /\ UNCHANGED <<clone_id, seqs, distance_mode, weights, constructbygroup,
                   min_size, dmat, total_dist, mst_tree,
                   G, G_, raised, self, clone_degree>>
    /\ UNCHANGED engine_vars

\* generate_network, lines 203-231: generate_layout, then self.__init__ with
\* the results unless generate_layout raised
LayoutAndReinitialize ==
    /\ pc = "merged"
    /\ LET lay == generate_layout(vertice_list[1], edge_list_final[1], min_size)
       IN  /\ G' = lay.G
           /\ G_' = lay.G_
           /\ raised' = lay.raised
           /\ IF lay.raised # "None"
              THEN pc' = "raised" /\ UNCHANGED self
              ELSE /\ pc' = "returned"
                   /\ self' = [distance |-> dmat,
                               edges |-> edge_list_final,
                               layout |-> Some(<<lay.pos[1], lay.pos_[1]>>),
                               graph |-> Some(<<lay.G[1], lay.G_[1]>>)]
    /\ UNCHANGED <<clone_id, seqs, distance_mode, weights, constructbygroup,
                   min_size, dmat, total_dist, mst_tree, edge_list_final,
                   vertice_list, clone_degree>>
    /\ UNCHANGED engine_vars

\* clone_degree(self), lines 250-263, after generate_network returned or
\* raised: the metadata column, or the exception clone_degree raises
CloneDegree ==
    /\ pc \in {"returned", "raised"}
    /\ LET r == clone_degree_column(self.distance)
       IN  /\ clone_degree' = Some(r)
           /\ pc' = IF r.raised = "None" THEN "annotated" ELSE "degree_raised"
    /\ UNCHANGED <<clone_id, seqs, distance_mode, weights, constructbygroup,
                   min_size, dmat, total_dist, mst_tree, edge_list_final,
                   vertice_list, G, G_, raised, self>>
    /\ UNCHANGED engine_vars

Next ==
    \/ CalculateDistances
    \/ CombineDistances
    \/ BuildTrees
    \/ MergeEdges
    \/ LayoutAndReinitialize
    \/ CloneDegree

Spec == Init /\ [][Next]_vars

\* all edge frames over the vertices of a direct generate_layout call: rows
\* (source, target, weight) with source before target
LayoutPairs == {p \in (1 .. NumVertices) \X (1 .. NumVertices) : p[1] < p[2]}

\* the inputs of one direct generate_layout call
InitLayout ==
    /\ pc = "layout"
    /\ vertice_list = Some([k \in 1 .. NumVertices |-> k])
    /\ \E es \in SUBSET LayoutPairs :
          edge_list_final =
              Some([columns |-> {"source", "target", "weight"},
                    rows |-> frame_rows([p \in es |-> <<p[1] + p[2], 1>>])])
    /\ min_size \in 2 .. MaxMinSize
    /\ clone_id = None
    /\ seqs = None
    /\ distance_mode = "simple"
    /\ weights = None
    /\ constructbygroup = FALSE
    /\ dmat = None
    /\ total_dist = None
    /\ mst_tree = None
    /\ G = None
    /\ G_ = None
    /\ raised = "None"
    /\ self = FreshSelf
    /\ clone_degree = None
    /\ fr = None
    /\ np_random = 0
    /\ hash_order = None
    /\ previous = None

\* generate_layout(vertices, edges, min_size), lines 265-280
GenerateLayout ==
    /\ pc = "layout"
    /\ LET lay == generate_layout(vertice_list[1], edge_list_final[1], min_size)
       IN  /\ G' = lay.G
           /\ G_' = lay.G_
           /\ raised' = lay.raised
           /\ pc' = IF lay.raised = "None" THEN "layout_returned" ELSE "layout_raised"
    /\ UNCHANGED <<clone_id, seqs, distance_mode, weights, constructbygroup,
                   min_size, dmat, total_dist, mst_tree, edge_list_final,
                   vertice_list, self, clone_degree>>
    /\ UNCHANGED engine_vars

NextLayout == GenerateLayout

SpecLayout == InitLayout /\ [][NextLayout]_vars

\* ----------------------------------------------------- the layout routines

\* Floats of the layout routines are fixed-point integers: x stands for
\* x / Unit, products and quotients are truncated toward zero
Unit == 1000

\* largest number of nodes of a direct call of a layout routine
MaxNodes == 3

\* largest iterations argument of a direct call of a layout routine
MaxIterations == 2

\* dim, the dimension of the layout
dim == 2

FDiv(a, b) == IF a < 0 THEN -((-a) \div b) ELSE a \div b

FMul(a, b) == FDiv(a * b, Unit)

FQuot(a, b) == FDiv(a * Unit, b)

\* the integer part of the square root
RECURSIVE isqrt(_)
isqrt(x) ==
    IF x < 2 THEN x
    ELSE LET r == 2 * isqrt(x \div 4)
         IN  IF (r + 1) * (r + 1) <= x THEN r + 1 ELSE r

\* np.sqrt
FSqrt(a) == isqrt(a * Unit)

Abs(x) == IF x < 0 THEN -x ELSE x

\* np.linalg.norm of one row / np.sqrt((v ** 2).sum()); vectors longer than
\* 30 units are measured at the resolution 1
norm(v) ==
    IF Abs(v[1]) <= 30 * Unit /\ Abs(v[2]) <= 30 * Unit
    THEN isqrt(v[1] * v[1] + v[2] * v[2])
    ELSE Unit * isqrt(FDiv(v[1], Unit) * FDiv(v[1], Unit)
                      + FDiv(v[2], Unit) * FDiv(v[2], Unit))

SetMax(s) == CHOOSE x \in s : \A y \in s : y <= x

SetMin(s) == CHOOSE x \in s : \A y \in s : x <= y

\* the sum of the vectors f[1] .. f[m]
RECURSIVE vsum(_, _)
vsum(f, m) ==
    IF m = 0 THEN <<0, 0>>
    ELSE LET r == vsum(f, m - 1) IN <<r[1] + f[m][1], r[2] + f[m][2]>>

\* lines 458-459 and 534-535: k = np.sqrt(1.0 / nnodes)
optimal_distance(nnodes) == FSqrt(FQuot(Unit, nnodes * Unit))

\* lines 464 and 538: t, a tenth of the larger extent of the positions
temperature(p) ==
    LET xs == {p[i][1] : i \in DOMAIN p}
        ys == {p[i][2] : i \in DOMAIN p}
        ex == SetMax(xs) - SetMin(xs)
        ey == SetMax(ys) - SetMin(ys)
    IN  FMul(IF ex > ey THEN ex ELSE ey, Unit \div 10)

\* delta * (k * k / distance ** 2 - a * distance / k) for one pair of nodes,
\* distance clipped from below; a zero delta gives a zero product
pair_force(delta, k, a, clip) ==
    IF delta = <<0, 0>> THEN <<0, 0>>
    ELSE LET d0 == norm(delta)
             distance == IF d0 < clip THEN clip ELSE d0
             coef == FDiv(k * k * Unit, distance * distance) - FQuot(a * distance, k)
         IN  <<FMul(delta[1], coef), FMul(delta[2], coef)>>

\* lines 481 and 562: pos / (k * np.sqrt(nnodes)), row by row
centering(p, k, nnodes) ==
    LET c == FMul(k, FSqrt(nnodes * Unit))
    IN  [i \in DOMAIN p |-> <<FQuot(p[i][1], c), FQuot(p[i][2], c)>>]

\* lines 483-485 and 564-566: the step of every node, its displacement scaled
\* to the length t; a length below 0.01 is replaced by 0.1
delta_pos_of(displacement, t) ==
    [i \in DOMAIN displacement |->
        LET l0 == norm(displacement[i])
            length == IF l0 < Unit \div 100 THEN Unit \div 10 ELSE l0
            ratio == FQuot(t, length)
        IN  <<FMul(displacement[i][1], ratio), FMul(displacement[i][2], ratio)>>]

\* lines 492 and 570: err = np.linalg.norm(delta_pos) / nnodes
err_of(delta_pos, nnodes) ==
    LET sq == [i \in DOMAIN delta_pos |->
                 <<delta_pos[i][1] * delta_pos[i][1] + delta_pos[i][2] * delta_pos[i][2], 0>>]
    IN  isqrt(vsum(sq, nnodes)[1]) \div nnodes

\* lines 493 and 571: err < threshold, with threshold = 1e-4
below_threshold(err) == err * 10000 < Unit

\* lines 474-481: the displacement of every node on the dense path
dense_displacement(p, A, k, nnodes) ==
    LET cen == centering(p, k, nnodes)
    IN  [i \in 1 .. nnodes |->
            LET f == [j \in 1 .. nnodes |->
                        pair_force(<<p[i][1] - p[j][1], p[i][2] - p[j][2]>>,
                                   k, A[<<i, j>>], Unit \div 1000)]
                s == vsum(f, nnodes)
            IN  <<s[1] - cen[i][1], s[2] - cen[i][2]>>]

\* lines 474-488: delta_pos of one dense iteration, zero for the fixed nodes
dense_step(p, A, k, t, fixed, nnodes) ==
    LET delta_pos == delta_pos_of(dense_displacement(p, A, k, nnodes), t)
    IN  [i \in 1 .. nnodes |->
            IF fixed # None /\ i \in fixed[1] THEN <<0, 0>> ELSE delta_pos[i]]

\* lines 545-561: the (dim, nnodes) displacement of the sparse path, column i
\* for node i; the rows of fixed nodes are skipped
sparse_forces(p, A, k, fixed, nnodes) ==
    [i \in 1 .. nnodes |->
        IF fixed # None /\ i \in fixed[1] THEN <<0, 0>>
        ELSE vsum([j \in 1 .. nnodes |->
                     pair_force(<<p[i][1] - p[j][1], p[i][2] - p[j][2]>>,
                                k, A[<<i, j>>], Unit \div 100)], nnodes)]

\* numpy broadcasting of two 2-d shapes: each axis equal, or 1 on one side
broadcastable(s1, s2) ==
    \A a \in 1 .. 2 : s1[a] = s2[a] \/ s1[a] = 1 \/ s2[a] = 1

\* line 562: displacement - pos / (k * np.sqrt(nnodes)), the (dim, nnodes)
\* array minus the (nnodes, dim) array element by element: entry [d, i] of
\* the difference takes coordinate i of node d
sparse_displacement(p, A, k, fixed, nnodes) ==
    LET cen == centering(p, k, nnodes)
        f == sparse_forces(p, A, k, fixed, nnodes)
    IN  [i \in 1 .. nnodes |-> <<f[i][1] - cen[1][i], f[i][2] - cen[2][i]>>]

\* lines 545-566: delta_pos of one sparse iteration
sparse_step(p, A, k, t, fixed, nnodes) ==
    delta_pos_of(sparse_displacement(p, A, k, fixed, nnodes), t)

\* pos += delta_pos
moved(p, delta_pos) ==
    [i \in DOMAIN p |-> <<p[i][1] + delta_pos[i][1], p[i][2] + delta_pos[i][2]>>]

\* the adjacency matrices of a direct call: no edge, a path of weight 1, or
\* every pair joined with weight 2
Adjacencies(nnodes) ==
    { [p \in (1 .. nnodes) \X (1 .. nnodes) |-> 0],
      [p \in (1 .. nnodes) \X (1 .. nnodes) |->
          IF p[1] - p[2] \in {1, -1} THEN 1 ELSE 0],
      [p \in (1 .. nnodes) \X (1 .. nnodes) |-> IF p[1] # p[2] THEN 2 ELSE 0] }

\* the points initial positions are taken from
Points == { <<0, 0>>, <<Unit, 0>>, <<Unit \div 2, Unit>> }

\* the fixed arguments of a direct call
FixedArguments == { None, Some({1}), Some({1, 2}) }

\* the arguments of one direct call of _fruchterman_reingold ("dense") or
\* _sparse_fruchterman_reingold ("sparse") with k=None and positions given
InitForce ==
    /\ pc = "force_call"
    /\ \E nnodes \in 2 .. MaxNodes :
       \E A \in Adjacencies(nnodes) :
       \E p \in [1 .. nnodes -> Points] :
       \E fixed \in FixedArguments :
       \E iterations \in 0 .. MaxIterations :
       \E routine \in {"dense", "sparse"} :
          fr = Some([routine |-> routine, A |-> A, nnodes |-> nnodes,
                     pos_arg |-> p, fixed |-> fixed, iterations |-> iterations,
                     pos |-> p, k |-> 0, t |-> 0, dt |-> 0, iteration |-> 0])
    /\ clone_id = None
    /\ seqs = None
    /\ distance_mode = "simple"
    /\ weights = None
    /\ constructbygroup = FALSE
    /\ min_size = 2
    /\ dmat = None
    /\ total_dist = None
    /\ mst_tree = None
    /\ edge_list_final = None
    /\ vertice_list = None
    /\ G = None
    /\ G_ = None
    /\ raised = "None"
    /\ self = FreshSelf
    /\ clone_degree = None
    /\ np_random = 0
    /\ hash_order = None
    /\ previous = None

\* what the routines leave alone
network_vars == <<clone_id, seqs, distance_mode, weights, constructbygroup,
                  min_size, dmat, total_dist, mst_tree, edge_list_final,
                  vertice_list, G, G_, self, clone_degree>>

\* lines 444-468 and 506-543: the locals before the loop
EnterRoutine ==
    /\ pc = "force_call"
    /\ LET f == fr[1]
           t == temperature(f.pos_arg)
       IN  fr' = Some([f EXCEPT !.k = optimal_distance(f.nnodes),
                                !.t = t,
                                !.dt = FDiv(t, f.iterations + 1)])
    /\ pc' = "force_loop"
    /\ UNCHANGED <<network_vars, raised, np_random, hash_order, previous>>

\* lines 472-494: one iteration of the dense loop
DenseIterate ==
    /\ pc = "force_loop"
    /\ fr[1].routine = "dense"
    /\ fr[1].iteration < fr[1].iterations
    /\ LET f == fr[1]
           delta_pos == dense_step(f.pos, f.A, f.k, f.t, f.fixed, f.nnodes)
       IN  /\ fr' = Some([f EXCEPT !.pos = moved(f.pos, delta_pos),
                                   !.t = f.t - f.dt,
                                   !.iteration = f.iteration + 1])
           /\ pc' = IF below_threshold(err_of(delta_pos, f.nnodes))
                    THEN "force_returned" ELSE "force_loop"
    /\ UNCHANGED <<network_vars, raised, np_random, hash_order, previous>>

\* lines 544-572: one iteration of the sparse loop; the subtraction of line
\* 562 raises ValueError unless the two shapes broadcast
SparseIterate ==
    /\ pc = "force_loop"
    /\ fr[1].routine = "sparse"
    /\ fr[1].iteration < fr[1].iterations
    /\ LET f == fr[1]
       IN  IF ~broadcastable(<<dim, f.nnodes>>, <<f.nnodes, dim>>)
           THEN /\ raised' = "ValueError"
                /\ pc' = "force_raised"
                /\ UNCHANGED fr
           ELSE LET delta_pos == sparse_step(f.pos, f.A, f.k, f.t, f.fixed, f.nnodes)
                IN  /\ fr' = Some([f EXCEPT !.pos = moved(f.pos, delta_pos),
                                            !.t = f.t - f.dt,
                                            !.iteration = f.iteration + 1])
                    /\ pc' = IF below_threshold(err_of(delta_pos, f.nnodes))
                             THEN "force_returned" ELSE "force_loop"
                    /\ UNCHANGED raised
    /\ UNCHANGED <<network_vars, np_random, hash_order, previous>>

\* lines 495 and 573: the loop has run its iterations, pos is returned
ReturnPositions ==
    /\ pc = "force_loop"
    /\ fr[1].iteration = fr[1].iterations
    /\ pc' = "force_returned"
    /\ UNCHANGED <<network_vars, fr, raised, np_random, hash_order, previous>>

NextForce ==
    \/ EnterRoutine
    \/ DenseIterate
    \/ SparseIterate
    \/ ReturnPositions

SpecForce == InitForce /\ [][NextForce]_vars

\* ------------------------------------------- _fruchterman_reingold_layout

\* line 412: graphs of fewer nodes go to the dense routine
sparse_threshold == 500

\* the largest graph of a _fruchterman_reingold_layout call has this many
\* nodes more than sparse_threshold
NodesAboveThreshold == 1

\* _sparse_fruchterman_reingold on an (nnodes, nnodes) matrix, by the shapes
\* of its arrays: the first iteration subtracts the (nnodes, dim) pos from
\* the (dim, nnodes) displacement (line 562) and raises ValueError unless the
\* shapes broadcast; without an iteration, or when they do, pos is returned
sparse_fruchterman_reingold(nnodes, iterations) ==
    IF iterations > 0 /\ ~broadcastable(<<dim, nnodes>>, <<nnodes, dim>>)
    THEN [raised |-> "ValueError", pos |-> None]
    ELSE [raised |-> "None", pos |-> Some(<<nnodes, dim>>)]

\* _fruchterman_reingold on an (nnodes, nnodes) matrix, by the shapes of its
\* arrays: every array of the loop is (nnodes, nnodes, dim), (nnodes, nnodes)
\* or (nnodes, dim), and pos is returned
dense_fruchterman_reingold(nnodes, iterations) ==
    [raised |-> "None", pos |-> Some(<<nnodes, dim>>)]

\* the arguments of one _fruchterman_reingold_layout call on a graph of
\* len_G nodes 1 .. len_G: pos holds the nodes with a position
InitDispatch ==
    /\ pc = "layout_call"
    /\ \E len_G \in 0 .. sparse_threshold + NodesAboveThreshold :
       \E p \in {None, Some(1 .. len_G)} :
       \E fixed \in {None, Some({1})} :
       \E seed \in {None, Some("RandomState")} :
       \E iterations \in 0 .. MaxIterations :
       \E scale \in {None, Some(1)} :
          fr = Some([len_G |-> len_G, pos |-> p, fixed |-> fixed, seed |-> seed,
                     iterations |-> iterations, scale |-> scale,
                     pos_arr |-> None, computed_by |-> "none",
                     result |-> None, rescaled |-> FALSE])
    /\ clone_id = None
    /\ seqs = None
    /\ distance_mode = "simple"
    /\ weights = None
    /\ constructbygroup = FALSE
    /\ min_size = 2
    /\ dmat = None
    /\ total_dist = None
    /\ mst_tree = None
    /\ edge_list_final = None
    /\ vertice_list = None
    /\ G = None
    /\ G_ = None
    /\ raised = "None"
    /\ self = FreshSelf
    /\ clone_degree = None
    /\ np_random = 0
    /\ hash_order = None
    /\ previous = None

\* lines 380-408: the checks of the arguments, the initial position array,
\* and the layouts of graphs with no node or one node
ProcessArguments ==
    /\ pc = "layout_call"
    /\ LET f == fr[1]
       IN  IF f.fixed # None /\ (f.pos = None \/ ~(f.fixed[1] \subseteq f.pos[1]))
           THEN raised' = "ValueError" /\ pc' = "layout_raised" /\ UNCHANGED fr
           ELSE IF f.pos # None /\ f.pos[1] = {}
           THEN raised' = "ValueError" /\ pc' = "layout_raised" /\ UNCHANGED fr
           ELSE IF f.pos # None /\ f.seed = None
           THEN raised' = "AttributeError" /\ pc' = "layout_raised" /\ UNCHANGED fr
           ELSE IF f.len_G < 2
           THEN /\ fr' = Some([f EXCEPT !.result = Some(<<f.len_G, dim>>)])
                /\ pc' = "layout_done"
                /\ UNCHANGED raised
           ELSE /\ fr' = Some([f EXCEPT !.pos_arr =
                                 IF f.pos = None THEN None ELSE Some(<<f.len_G, dim>>)])
                /\ pc' = "layout_try"
                /\ UNCHANGED raised
    /\ UNCHANGED <<network_vars, np_random, hash_order, previous>>

\* lines 410-421: the try block: ValueError is raised for a graph below the
\* threshold, otherwise the sparse routine runs and returns or raises
TrySparse ==
    /\ pc = "layout_try"
    /\ LET f == fr[1]
       IN  IF f.len_G < sparse_threshold
           THEN pc' = "layout_except" /\ UNCHANGED fr
           ELSE LET r == sparse_fruchterman_reingold(f.len_G, f.iterations)
                IN  IF r.raised = "ValueError"
                    THEN pc' = "layout_except" /\ UNCHANGED fr
                    ELSE /\ fr' = Some([f EXCEPT !.result = r.pos,
                                                 !.computed_by = "sparse"])
                         /\ pc' = "layout_computed"
    /\ UNCHANGED <<network_vars, raised, np_random, hash_order, previous>>

\* lines 422-430: except ValueError: the dense routine runs
ExceptDense ==
    /\ pc = "layout_except"
    /\ LET f == fr[1]
           r == dense_fruchterman_reingold(f.len_G, f.iterations)
       IN  fr' = Some([f EXCEPT !.result = r.pos, !.computed_by = "dense"])
    /\ pc' = "layout_computed"
    /\ UNCHANGED <<network_vars, raised, np_random, hash_order, previous>>

\* lines 431-434: the positions are rescaled unless nodes are fixed or scale
\* is None, and returned as a dict
RescaleAndReturn ==
    /\ pc = "layout_computed"
    /\ LET f == fr[1]
       IN  fr' = Some([f EXCEPT !.rescaled = (f.fixed = None /\ f.scale # None)])
    /\ pc' = "layout_done"
    /\ UNCHANGED <<network_vars, raised, np_random, hash_order, previous>>

NextDispatch ==
    \/ ProcessArguments
    \/ TrySparse
    \/ ExceptDense
    \/ RescaleAndReturn

SpecDispatch == InitDispatch /\ [][NextDispatch]_vars

\* ------------------------------------------ repeated generate_network calls

\* the number of states of the model of a numpy RandomState
RandomModulus == 32

\* the states the global RandomState of a new interpreter is seeded to
FreshRandomStates == {0, 1, 2, 3}

\* RandomState.random_sample: the next value in [0, 1) and the next state
random_sample(s) ==
    [value |-> FDiv(s * Unit, RandomModulus), state |-> (5 * s + 3) % RandomModulus]

\* RandomState.rand(m, dim): m rows of dim values drawn one after the other
RECURSIVE rand(_, _)
rand(s, m) ==
    IF m = 0 THEN [rows |-> <<>>, state |-> s]
    ELSE LET r == rand(s, m - 1)
             x == random_sample(r.state)
             y == random_sample(x.state)
         IN  [rows |-> Append(r.rows, <<x.value, y.value>>), state |-> y.state]

\* lines 436 and 450-452, reached from line 428 with pos_arr = None and
\* seed = None: random_state(7) names argument 7 (seed) as the generator
\* argument and maps None to numpy's global RandomState, whose rand gives the
\* initial position of every node, in the order of the nodes of the graph
initial_positions(s, g) ==
    LET r == rand(s, Cardinality(g.nodes))
    IN  [pos |-> [v \in g.nodes |-> r.rows[Cardinality({u \in g.nodes : u <= v})]],
         state |-> r.state]

\* the rows of dat of one cell: its clone id, its heavy chain and its two
\* light chain contigs, in the order of dat
RepeatRecords ==
    { [clone |-> "A_1", heavy |-> <<"A", "A", "A">>,
       light |-> << <<"C", "C">>, <<"C", "D">> >>],
      [clone |-> "A_1", heavy |-> <<"A", "A", "B">>,
       light |-> << <<"C", "C">>, <<"C", "D">> >>],
      [clone |-> "A_2", heavy |-> <<"A", "A", "A">>,
       light |-> << <<"C", "D">>, <<"C", "D">> >>] }

\* the orders in which a set of the two sequence ids of a cell can iterate
SetOrders == { <<1, 2>>, <<2, 1>> }

\* the set iteration orders of one interpreter: string hashes are salted per
\* process, and the ids of different cells are different strings
HashOrders == [Cells -> SetOrders]

\* lines 88-89: second_key_dict, the slot of each contig of a cell: its
\* position in list(set(second_key))
second_key_dict(order) ==
    [c \in {1, 2} |-> (CHOOSE k \in 1 .. 2 : order[k] = c) - 1]

\* lines 79-98: dat_seq.  light_seq_tree2[g] maps slot to sequence, filled in
\* the order of dat; the light columns are named after the slots in the order
\* the slots first appear (line 94), after the heavy column
dat_seq(data, h) ==
    LET slot == [i \in Cells |-> second_key_dict(h[i])]
        name == [k \in {0, 1} |-> IF k = 0 THEN "light_0" ELSE "light_1"]
        first == CHOOSE i \in Cells : \A j \in Cells : i <= j
    IN  [columns |-> <<"heavy", name[slot[first][1]], name[slot[first][2]]>>,
         table |-> [l \in {"heavy", "light_0", "light_1"} |->
                      [i \in Cells |->
                          IF l = "heavy" THEN data[i].heavy
                          ELSE LET c == CHOOSE c \in {1, 2} : name[slot[i][c]] = l
                               IN  data[i].light[c]]]]

\* the inputs of a generate_network call on a Dandelion object, in an
\* interpreter whose global RandomState is freshly seeded
InitRepeat ==
    /\ pc = "repeat_start"
    /\ \E data \in [Cells -> RepeatRecords] :
          /\ clone_id = [i \in Cells |-> data[i].clone]
          /\ self = [data |-> data, distance |-> None, edges |-> None,
                     layout |-> None, graph |-> None]
    /\ hash_order \in {Some(h) : h \in HashOrders}
    /\ np_random = 0
    /\ previous = None
    /\ fr = None
    /\ seqs = None
    /\ distance_mode = "simple"
    /\ weights = None
    /\ constructbygroup = FALSE
    /\ min_size = 2
    /\ dmat = None
    /\ total_dist = None
    /\ mst_tree = None
    /\ edge_list_final = None
    /\ vertice_list = None
    /\ G = None
    /\ G_ = None
    /\ raised = "None"
    /\ clone_degree = None

\* generate_network, lines 65-98: the layer table
ExtractLayers ==
    /\ pc = "repeat_start"
    /\ seqs' = Some(dat_seq(self.data, hash_order[1]))
    /\ pc' = "layers"
    /\ UNCHANGED <<clone_id, distance_mode, weights, constructbygroup, min_size,
                   dmat, total_dist, mst_tree, edge_list_final, vertice_list,
                   G, G_, raised, self, clone_degree, engine_vars>>

\* generate_network, lines 100-125: one matrix per column of the layer table
\* and their combination
LayerDistances ==
    /\ pc = "layers"
    /\ LET d == [l \in DOMAIN seqs[1].table |-> layer_dmat(seqs[1].table[l])]
           ds == [k \in 1 .. Len(seqs[1].columns) |-> d[seqs[1].columns[k]]]
           comb == combine_distance(distance_mode, weights, ds)
       IN  /\ dmat' = Some([columns |-> seqs[1].columns, matrices |-> d])
           /\ total_dist' = comb.total
           /\ raised' = comb.raised
           /\ pc' = IF comb.raised = "None" THEN "combined" ELSE "raised"
    /\ UNCHANGED <<clone_id, seqs, distance_mode, weights, constructbygroup,
                   min_size, mst_tree, edge_list_final, vertice_list,
                   G, G_, self, clone_degree, engine_vars>>

\* generate_network, lines 203-231: generate_layout, whose two layouts start
\* from positions drawn from the global RandomState (first for G, then for
\* G_), then self.__init__ with the results
LayoutFromGlobalRandom ==
    /\ pc = "merged"
    /\ LET lay == generate_layout(vertice_list[1], edge_list_final[1], min_size)
       IN  /\ G' = lay.G
           /\ G_' = lay.G_
           /\ raised' = lay.raised
           /\ IF lay.raised # "None"
              THEN pc' = "raised" /\ UNCHANGED <<self, np_random>>
              ELSE LET p == initial_positions(np_random, lay.G[1])
                       p_ == initial_positions(p.state, lay.G_[1])
                   IN  /\ pc' = "repeat_returned"
                       /\ np_random' = p_.state
                       /\ self' = [self EXCEPT
                                     !.distance = dmat,
                                     !.edges = edge_list_final,
                                     !.layout = Some(<<p.pos, p_.pos>>),
                                     !.graph = Some(<<lay.G[1], lay.G_[1]>>)]
    /\ UNCHANGED <<clone_id, seqs, distance_mode, weights, constructbygroup,
                   min_size, dmat, total_dist, mst_tree, edge_list_final,
                   vertice_list, clone_degree, fr, hash_order, previous>>

\* what a generate_network call has produced
Outputs ==
    [dat_seq |-> seqs, total_dist |-> total_dist, edges |-> self.edges,
     layout |-> self.layout]

\* the caller's object as it was before the call, and the locals of a call
\* that has not started
ResetCall ==
    /\ self' = [self EXCEPT !.distance = None, !.edges = None,
                            !.layout = None, !.graph = None]
    /\ seqs' = None
    /\ dmat' = None
    /\ total_dist' = None
    /\ mst_tree' = None
    /\ edge_list_final' = None
    /\ vertice_list' = None
    /\ G' = None
    /\ G_' = None
    /\ pc' = "repeat_start"
    /\ UNCHANGED <<clone_id, distance_mode, weights, constructbygroup, min_size,
                   raised, clone_degree, fr>>

\* the same records and parameters are passed again in the same interpreter
CallAgain ==
    /\ pc = "repeat_returned"
    /\ previous = None
    /\ previous' = Some(Outputs)
    /\ ResetCall
    /\ UNCHANGED <<hash_order, np_random>>

\* the same records and parameters are passed again in a new interpreter:
\* another hash salt, another state of the global RandomState
CallInNewInterpreter ==
    /\ pc = "repeat_returned"
    /\ previous = None
    /\ previous' = Some(Outputs)
    /\ ResetCall
    /\ hash_order' \in {Some(h) : h \in HashOrders}
    /\ np_random' \in FreshRandomStates

NextRepeat ==
    \/ ExtractLayers
    \/ LayerDistances
    \/ BuildTrees
    \/ MergeEdges
    \/ LayoutFromGlobalRandom
    \/ CallAgain
    \/ CallInNewInterpreter

SpecRepeat == InitRepeat /\ [][NextRepeat]_vars

\* ------------------------------------------------------------------ claims

\* the keys of the clusters the spanning trees are built over
ClusterKeys == {cluster_key(clone_id, constructbygroup, i) : i \in Cells}

\* the cells of one such cluster
Members(x) == {i \in Cells : cluster_key(clone_id, constructbygroup, i) = x}

\* the pairs of a set of cells, earlier cell first
PairsOf(m) == {p \in m \X m : p[1] < p[2]}

\* the cells reachable from s along the pairs of e, in either direction
RECURSIVE Reach(_, _)
Reach(e, s) ==
    LET nxt == s \cup {p[2] : p \in {q \in e : q[1] \in s}}
                 \cup {p[1] : p \in {q \in e : q[2] \in s}}
    IN  IF nxt = s THEN s ELSE Reach(e, nxt)

\* e is a spanning tree of the cells m
IsSpanningTree(m, e) ==
    /\ e \subseteq PairsOf(m)
    /\ Cardinality(e) = Cardinality(m) - 1
    /\ Reach(e, {CHOOSE v \in m : TRUE}) = m

\* the total weight of the pairs e in the matrix total
RECURSIVE TreeWeight(_, _)
TreeWeight(e, total) ==
    IF e = {} THEN RatZero
    ELSE LET p == CHOOSE p \in e : TRUE
         IN  RatAdd(total[p], TreeWeight(e \ {p}, total))

\* the nonzero entries of the adjacency mst() returned for cluster x form a
\* spanning tree of the cluster that no other spanning tree undercuts
IsMinimumSpanningTree(x) ==
    /\ x \in DOMAIN mst_tree[1]
    /\ LET e == {p \in DOMAIN mst_tree[1][x] : mst_tree[1][x][p] # 0}
       IN  /\ IsSpanningTree(Members(x), e)
           /\ \A t \in SUBSET PairsOf(Members(x)) :
                 IsSpanningTree(Members(x), t) =>
                    ~RatLess(TreeWeight(t, total_dist[1]), TreeWeight(e, total_dist[1]))

\* every two distinct cells of cluster x are at distance 1 or more
AllAtLeastOne(x) ==
    \A p \in PairsOf(Members(x)) : ~RatLess(total_dist[1][p], <<1, 1>>)

\* C1 as stated: for every cluster of n >= 2 cells, whatever the distances,
\* the adjacency returned by mst() has exactly n-1 nonzero entries, which form
\* a spanning tree of the cluster of minimum total weight
C1_AnyMatrixHasSpanningTree ==
    mst_tree # None =>
        \A x \in ClusterKeys :
            Cardinality(Members(x)) >= 2 => IsMinimumSpanningTree(x)

\* C1 as amended: for every cluster of n >= 2 cells whose distinct cells are
\* all at distance >= 1, the adjacency returned by mst() has exactly n-1
\* nonzero entries, which form a spanning tree of the cluster whose total
\* weight no other spanning tree over the same sub-matrix undercuts
C1_PositiveMatrixHasMinimumSpanningTree ==
    mst_tree # None =>
        \A x \in ClusterKeys :
            (Cardinality(Members(x)) >= 2 /\ AllAtLeastOne(x))
                => IsMinimumSpanningTree(x)

\* a cluster of three cells with three different distances, all >= 1, whose
\* trees have been built
C1_Witness ==
    /\ mst_tree # None
    /\ \E x \in ClusterKeys :
          /\ Cardinality(Members(x)) = 3
          /\ AllAtLeastOne(x)
          /\ \A p, q \in PairsOf(Members(x)) :
                p # q => total_dist[1][p] # total_dist[1][q]

\* the rows of the merged edge list
Rows == edge_list_final[1].rows

\* the cells that are an end of some row of the merged edge list
Endpoints ==
    {Rows[k].source : k \in 1 .. Len(Rows)} \cup {Rows[k].target : k \in 1 .. Len(Rows)}

\* no two cells share a clone id or a cluster key
AllSingletons ==
    \A i, j \in Cells :
        i # j => /\ clone_id[i] # clone_id[j]
                 /\ cluster_key(clone_id, constructbygroup, i)
                      # cluster_key(clone_id, constructbygroup, j)

\* generate_network has returned or raised after combining the distances
CallEnded == total_dist # None /\ pc \in {"returned", "raised", "annotated", "degree_raised"}

\* C2 as stated: when every cluster is a singleton, generate_network ends with
\* the empty (source, target, weight) edge list and without raising: the full
\* graph holds every cell as a node and both layouts are returned
C2_SingletonsCompleteWithEmptyEdgeList ==
    (AllSingletons /\ CallEnded) =>
        /\ edge_list_final
             = Some([columns |-> {"source", "target", "weight"}, rows |-> <<>>])
        /\ raised = "None"
        /\ G # None
        /\ G[1].nodes = Cells
        /\ self.layout # None

\* the sum of the stored layer matrices at a pair of cells
RECURSIVE LayerTotal(_, _)
LayerTotal(p, k) ==
    IF k = 0 THEN 0 ELSE LayerTotal(p, k - 1) + dmat[1][Layers[k]][p]

\* the sum of row i of the summed layer matrices over the cells js
RECURSIVE RowSum(_, _)
RowSum(i, js) ==
    IF js = {} THEN 0
    ELSE LET j == CHOOSE j \in js : TRUE
         IN  LayerTotal(<<i, j>>, Len(Layers)) + RowSum(i, js \ {j})

\* C3 as stated: the clone_degree of every cell i is the sum over the other
\* cells j of the summed layer distances between i and j
C3_CloneDegreeIsWeightedDegree ==
    (clone_degree # None /\ clone_degree[1].raised = "None") =>
        \A i \in Cells :
            clone_degree[1].column[1][i] = Some(RowSum(i, Cells \ {i}))

C5_NoSelfLoopNoDuplicatePair ==
    edge_list_final # None =>
        /\ \A k \in 1 .. Len(Rows) : Rows[k].source # Rows[k].target
        /\ \A k, l \in 1 .. Len(Rows) :
              k # l => {Rows[k].source, Rows[k].target}
                         # {Rows[l].source, Rows[l].target}

\* trees built by group: a merged edge list holding a row between two clones
\* (from a tree only) and a row inside one clone
C5_Witness ==
    /\ edge_list_final # None
    /\ constructbygroup
    /\ \E k, l \in 1 .. Len(Rows) :
          /\ clone_id[Rows[k].source] # clone_id[Rows[k].target]
          /\ clone_id[Rows[l].source] = clone_id[Rows[l].target]

\* the integer weight the trees hold for the pair p (0: no tree edge)
TreeEntry(p) ==
    IF \E x \in DOMAIN mst_tree[1] : p \in DOMAIN mst_tree[1][x]
    THEN LET x == CHOOSE x \in DOMAIN mst_tree[1] : p \in DOMAIN mst_tree[1][x]
         IN  mst_tree[1][x][p]
    ELSE 0

LayerWeight(k) ==
    IF distance_mode = "simple" THEN <<1, 1>>
    ELSE IF weights = None THEN <<1, Len(Layers)>>
    ELSE weights[1][k]

\* the sum over the first k layers of w_k * D_k at p, as a fraction that is
\* not reduced
RECURSIVE WeightedSum(_, _)
WeightedSum(p, k) ==
    IF k = 0 THEN <<0, 1>>
    ELSE LET r == WeightedSum(p, k - 1)
             w == LayerWeight(k)
         IN  <<r[1] * w[2] + w[1] * dmat[1][Layers[k]][p] * r[2], r[2] * w[2]>>

\* C7: every cell of the combined matrix is the sum over the layers k of
\* w_k * D_k, with w_k = 1 (simple), 1/num_layers (weighted, no weights) or
\* weights[k] (weighted, one weight per layer)
C7_TotalIsWeightedSum ==
    total_dist # None =>
        \A p \in Cells \X Cells :
            LET e == WeightedSum(p, Len(Layers))
            IN  total_dist[1][p][1] * e[2] = e[1] * total_dist[1][p][2]

\* weighted mode with weights (0.3, 0.7): a cell with heavy distance 2 and
\* light distance 1 combined to 1.3
C7_Witness ==
    /\ total_dist # None
    /\ distance_mode = "weighted"
    /\ weights = TwoWeights
    /\ \E p \in Cells \X Cells :
          /\ dmat[1]["heavy"][p] = 2
          /\ dmat[1]["light_0"][p] = 1
          /\ total_dist[1][p] = <<13, 10>>

\* the call passes weights whose length is not the number of layers
WeightsMismatch == weights # None /\ Len(weights[1]) # Len(Layers)

\* nothing after the combination of the distances has happened
NothingBuilt ==
    /\ total_dist = None
    /\ mst_tree = None
    /\ edge_list_final = None
    /\ vertice_list = None
    /\ G = None
    /\ G_ = None
    /\ self = FreshSelf

\* C8 as stated: weights whose length differs from the number of layers
\* raise the length-mismatch error, before anything is built and with the
\* caller's object unchanged
C8_MismatchRaises ==
    (WeightsMismatch /\ pc \notin {"start", "distances"}) =>
        /\ raised = "IndexError"
        /\ NothingBuilt

\* C8 as amended: in distance_mode 'weighted', weights whose length differs
\* from the number of layers raise the length-mismatch error, before any edge
\* list, graph or layout is built and with the caller's object unchanged
C8_MismatchRaisesInWeightedMode ==
    (distance_mode = "weighted" /\ WeightsMismatch /\ pc \notin {"start", "distances"}) =>
        /\ raised = "IndexError"
        /\ pc \in {"raised", "degree_raised"}
        /\ NothingBuilt

\* weighted mode with three weights for two layers: the call has raised
C8_Witness ==
    /\ distance_mode = "weighted"
    /\ weights = ThreeWeights
    /\ pc = "raised"
    /\ raised = "IndexError"

\* the number of rows of the edge list handed to generate_layout at cell v
RowDegree(v) ==
    Cardinality({k \in 1 .. Len(Rows) : v \in {Rows[k].source, Rows[k].target}})

\* the vertices handed to generate_layout
Vertices == {vertice_list[1][k] : k \in 1 .. Len(vertice_list[1])}

\* C9: the nodes of the full graph are exactly the vertex list (every cell);
\* with min_size = 2 the nodes of the trimmed graph are exactly the nodes of
\* the full graph with an incident edge, and every edge is kept
C9_FullGraphHasEveryVertex ==
    G # None =>
        /\ G[1].nodes = Vertices
        /\ pc # "layout_returned" /\ pc # "layout_raised" => G[1].nodes = Cells
        /\ min_size = 2 =>
              /\ G_[1].nodes = {v \in G[1].nodes : RowDegree(v) > 0}
              /\ G_[1].adj = G[1].adj

\* min_size = 2: a full graph with an isolated cell and an edge, trimmed
C9_Witness ==
    /\ G # None
    /\ min_size = 2
    /\ pc = "returned"
    /\ \E v \in G[1].nodes : RowDegree(v) = 0 /\ v \notin G_[1].nodes
    /\ DOMAIN G_[1].adj # {}

ClonePairs == {p \in PairsOf(Cells) : clone_id[p[1]] = clone_id[p[2]]}

\* the (source, target) keys of the rows of the merged edge list
RowKeys == {<<Rows[k].source, Rows[k].target>> : k \in 1 .. Len(Rows)}

\* the (source, target) keys of the nonzero entries of the spanning trees
TreeKeys == UNION {adjacency_edges(mst_tree[1][x]) : x \in DOMAIN mst_tree[1]}

FixedNodes == IF fr[1].fixed = None THEN {} ELSE fr[1].fixed[1]

\* C12 as stated: on the dense and on the sparse path, after any number of
\* iterations every fixed node is at its supplied initial position
C12_FixedNodesStayOnBothPaths ==
    (fr # None /\ pc \in {"force_loop", "force_returned"}) =>
        \A i \in FixedNodes : fr[1].pos[i] = fr[1].pos_arg[i]

\* C12 on the dense path alone
C12_FixedNodesStayOnDensePath ==
    (fr # None /\ pc \in {"force_loop", "force_returned"} /\ fr[1].routine = "dense") =>
        \A i \in FixedNodes : fr[1].pos[i] = fr[1].pos_arg[i]

\* C13 as stated: the positions _fruchterman_reingold_layout returns for a
\* graph of 2 <= n < 500 nodes are computed by the dense routine, and those
\* of a graph of n >= 500 nodes by the sparse routine
C13_SparseAtOrAboveThreshold ==
    (fr # None /\ pc = "layout_done" /\ fr[1].len_G >= 2) =>
        /\ fr[1].len_G < sparse_threshold => fr[1].computed_by = "dense"
        /\ fr[1].len_G >= sparse_threshold => fr[1].computed_by = "sparse"

\* the half of C13 below the threshold
C13_DenseBelowThreshold ==
    (fr # None /\ pc = "layout_done" /\ fr[1].len_G >= 2
        /\ fr[1].len_G < sparse_threshold) => fr[1].computed_by = "dense"

\* a second call with the same records and parameters has returned
SecondCallReturned == pc = "repeat_returned" /\ previous # None

\* C11 as stated: two generate_network calls with identical records and
\* parameters give the same light-chain slots, the same total distance
\* matrix, the same edge list and the same initial layout positions,
\* whatever the set iteration order and the global random generator are
C11_RepeatedCallsAgree ==
    SecondCallReturned => Outputs = previous[1]

\* the part of C11 about the layer slots
C11_SameSlots ==
    SecondCallReturned => Outputs.dat_seq = previous[1].dat_seq

\* the part of C11 about the distances and the edge list
C11_SameEdges ==
    SecondCallReturned =>
        /\ Outputs.total_dist = previous[1].total_dist
        /\ Outputs.edges = previous[1].edges

\* the part of C11 about the initial layout positions
C11_SamePositions ==
    SecondCallReturned => Outputs.layout = previous[1].layout

====
